---- MODULE Spec2Model ----
(***************************************************************************)
(* Edit-session engine of the image editor: ImageModel (original/current   *)
(* buffers), HistoryManager (bounded undo/redo stacks) and the tool state  *)
(* of ImageEditorApp (blur, brightness/contrast, scale sessions and the    *)
(* edge guard).                                                            *)
(*                                                                         *)
(* A pixel buffer is modelled as the sequence of library calls that        *)
(* produced it: <<imread(p), f1, f2, ...>>.  The OpenCV kernels are black  *)
(* boxes, so two buffers are equal here exactly when they were produced by *)
(* the same calls on the same file; None is the empty sequence.            *)
(*                                                                         *)
(* The variable last is not program state: it records which handler ran    *)
(* last and what it found, so that properties can speak about "the call    *)
(* that just returned".                                                    *)
(***************************************************************************)
EXTENDS Integers, Sequences, FiniteSets, TLC

VARIABLES original, current, filepath,
          undo_stack, redo_stack,
          blur_level, blur_base,
          brightness_level, contrast_level, bc_base,
          scale_level, scale_base,
          edge_applied,
          last

modelvars == <<original, current, filepath>>
histvars  == <<undo_stack, redo_stack>>
blurvars  == <<blur_level, blur_base>>
bcvars    == <<brightness_level, contrast_level, bc_base>>
scalevars == <<scale_level, scale_base>>
toolvars  == <<blur_level, blur_base, brightness_level, contrast_level,
               bc_base, scale_level, scale_base, edge_applied>>
appvars   == <<original, current, filepath, undo_stack, redo_stack,
               blur_level, blur_base, brightness_level, contrast_level,
               bc_base, scale_level, scale_base, edge_applied>>
vars      == <<original, current, filepath, undo_stack, redo_stack,
               blur_level, blur_base, brightness_level, contrast_level,
               bc_base, scale_level, scale_base, edge_applied, last>>

\* ---------------- bounds ----------------
NumPaths == 2      \* files the open dialog can return
MaxHist  == 2      \* Spec: longest undo stack explored
MaxChain == 17     \* SpecChain: grayscale filters chained onto a loaded image
MaxBlur  == 3      \* highest blur level explored
MaxBC    == 1      \* largest |brightness_level| + |contrast_level| explored
MaxScale == 1      \* highest scale level explored

\* ---------------- program constants ----------------
max_states == 15
NoPath == 0

\* ---------------- pixel buffers ----------------
None == <<>>

Call(name, x, y) == [op |-> name, a |-> x, b |-> y]

imread(path) == << Call("imread", path, 0) >>

to_grayscale(img) == Append(img, Call("cvtColor", 0, 0))

edge_detect(img) == Append(img, Call("Canny", 50, 150))

GaussianBlur(img, k) == Append(img, Call("GaussianBlur", k, k))

\* out = clip((p - 128) * contrast + 128 + brightness): with brightness 0 and
\* contrast 1.0 every sample is returned as it was
brightness_contrast(img, brightness, contrast100) ==
    IF brightness = 0 /\ contrast100 = 100 THEN img
    ELSE Append(img, Call("brightness_contrast", brightness, contrast100))

resize(img, level) == Append(img, Call("resize", level, 0))

Depth(img) == Len(img) - 1

Top(stack) == stack[Len(stack)]

Pop(stack) == SubSeq(stack, 1, Len(stack) - 1)

\* ---------------- ImageModel ----------------
has_image == current # None

\* ---------------- HistoryManager ----------------
\* the manager's two stacks as one value; the top of a stack is its last
\* element
history == [undo |-> undo_stack, redo |-> redo_stack]

\* clear leaving the redo stack alone
clear_undo_only(h) == [undo |-> <<>>, redo |-> h.redo]

clear(h) == [undo |-> <<>>, redo |-> <<>>]

\* push without the length test
push_unbounded(h, img) ==
    IF img = None THEN h
    ELSE [undo |-> Append(h.undo, img), redo |-> <<>>]

\* push leaving the redo stack alone
push_keep_redo(h, img) ==
    IF img = None THEN h
    ELSE LET appended == Append(h.undo, img)
         IN  [undo |-> IF Len(appended) > max_states
                       THEN Tail(appended) ELSE appended,
              redo |-> h.redo]

\* push dropping the entry it has just appended (pop() for pop(0))
push_evict_newest(h, img) ==
    IF img = None THEN h
    ELSE LET appended == Append(h.undo, img)
         IN  [undo |-> IF Len(appended) > max_states
                       THEN Pop(appended) ELSE appended,
              redo |-> <<>>]

push(h, img) ==
    IF img = None THEN h
    ELSE LET appended == Append(h.undo, img)
         IN  [undo |-> IF Len(appended) > max_states
                       THEN Tail(appended) ELSE appended,
              redo |-> <<>>]

can_undo(h) == Len(h.undo) > 0

can_redo(h) == Len(h.redo) > 0

\* undo returning the oldest entry (pop(0) for pop())
undo_oldest(h, current_img) ==
    IF ~can_undo(h) THEN [h |-> h, ret |-> None]
    ELSE [h   |-> [undo |-> Tail(h.undo),
                   redo |-> Append(h.redo, current_img)],
          ret |-> Head(h.undo)]

\* undo/redo give back the manager after the call and the returned image
undo(h, current_img) ==
    IF ~can_undo(h) THEN [h |-> h, ret |-> None]
    ELSE [h   |-> [undo |-> Pop(h.undo),
                   redo |-> Append(h.redo, current_img)],
          ret |-> Top(h.undo)]

\* redo returning the top of the redo stack without removing it
redo_keep_top(h, current_img) ==
    IF ~can_redo(h) THEN [h |-> h, ret |-> None]
    ELSE [h   |-> [undo |-> Append(h.undo, current_img),
                   redo |-> h.redo],
          ret |-> Top(h.redo)]

\* redo recording the image being left with push
redo_via_push(h, current_img) ==
    IF ~can_redo(h) THEN [h |-> h, ret |-> None]
    ELSE [h |-> push(h, current_img), ret |-> Top(h.redo)]

redo(h, current_img) ==
    IF ~can_redo(h) THEN [h |-> h, ret |-> None]
    ELSE [h   |-> [undo |-> Append(h.undo, current_img),
                   redo |-> Pop(h.redo)],
          ret |-> Top(h.redo)]

set_history(h) ==
    /\ undo_stack' = h.undo
    /\ redo_stack' = h.redo

Init ==
    /\ original = None
    /\ current = None
    /\ filepath = NoPath
    /\ undo_stack = <<>>
    /\ redo_stack = <<>>
    /\ blur_level = 0
    /\ blur_base = None
    /\ brightness_level = 0
    /\ contrast_level = 0
    /\ bc_base = None
    /\ scale_level = 0
    /\ scale_base = None
    /\ edge_applied = FALSE
    /\ last = [op |-> "init", acted |-> FALSE, raised |-> FALSE,
               current |-> None, undo_len |-> 0, can_redo |-> FALSE,
               live |-> "none"]

\* ---------------- record of the last call ----------------
\* which live session is active
live_kind ==
    IF blur_base # None THEN "blur"
    ELSE IF bc_base # None THEN "bc"
    ELSE IF scale_base # None THEN "scale"
    ELSE "none"

\* last: the handler called last, whether it got past its early returns,
\* whether it ended in its except branch, and what it found: the current
\* image, the undo stack's length, whether redo was available and the live
\* session
Found(name, acted, raised) ==
    [op |-> name, acted |-> acted, raised |-> raised, current |-> current,
     undo_len |-> Len(undo_stack), can_redo |-> can_redo(history),
     live |-> live_kind]

Note(name, acted) == last' = Found(name, acted, FALSE)

\* ---------------- tool-state resets ----------------
reset_blur_state ==
    /\ blur_level' = 0
    /\ blur_base' = None

reset_bc_state ==
    /\ brightness_level' = 0
    /\ contrast_level' = 0
    /\ bc_base' = None

reset_scale_state ==
    /\ scale_level' = 0
    /\ scale_base' = None

reset_edge_state == edge_applied' = FALSE

\* _reset_all_tool_states without the call of _reset_edge_state
reset_all_keep_edge ==
    /\ reset_blur_state
    /\ reset_bc_state
    /\ reset_scale_state
    /\ UNCHANGED edge_applied

reset_all_tool_states ==
    /\ reset_blur_state
    /\ reset_bc_state
    /\ reset_scale_state
    /\ reset_edge_state

\* _cancel_other_sessions_for without the brightness/contrast reset
cancel_other_sessions_keep_bc(tool_name) ==
    /\ IF tool_name # "blur"  THEN reset_blur_state  ELSE TRUE
    /\ IF tool_name # "bc"    THEN UNCHANGED bcvars  ELSE TRUE
    /\ IF tool_name # "scale" THEN reset_scale_state ELSE TRUE
    /\ IF tool_name # "edge"  THEN reset_edge_state  ELSE TRUE

\* _cancel_other_sessions_for without the edge guard reset
cancel_other_sessions_keep_edge(tool_name) ==
    /\ IF tool_name # "blur"  THEN reset_blur_state  ELSE TRUE
    /\ IF tool_name # "bc"    THEN reset_bc_state    ELSE TRUE
    /\ IF tool_name # "scale" THEN reset_scale_state ELSE TRUE
    /\ IF tool_name # "edge"  THEN UNCHANGED edge_applied ELSE TRUE

\* the caller sets the primed state of the tool it names
cancel_other_sessions_for(tool_name) ==
    /\ IF tool_name # "blur"  THEN reset_blur_state  ELSE TRUE
    /\ IF tool_name # "bc"    THEN reset_bc_state    ELSE TRUE
    /\ IF tool_name # "scale" THEN reset_scale_state ELSE TRUE
    /\ IF tool_name # "edge"  THEN reset_edge_state  ELSE TRUE

\* ---------------- File menu ----------------
\* path = NoPath: the dialog was cancelled; decoded = FALSE: cv2.imread
\* returned None and ImageModel.load raised
\* open_image with a load that stores the path before it tests the decoded
\* image
open_image_partial_load(path, decoded) ==
    /\ last' = Found("open_image", path # NoPath /\ decoded,
                     path # NoPath /\ ~decoded)
    /\ IF path = NoPath
       THEN UNCHANGED appvars
       ELSE IF ~decoded
       THEN /\ filepath' = path
            /\ UNCHANGED <<original, current, undo_stack, redo_stack,
                           blur_level, blur_base, brightness_level,
                           contrast_level, bc_base, scale_level, scale_base,
                           edge_applied>>
       ELSE /\ filepath' = path
            /\ original' = imread(path)
            /\ current' = imread(path)
            /\ set_history(clear(history))
            /\ reset_all_tool_states

open_image(path, decoded) ==
    /\ last' = Found("open_image", path # NoPath /\ decoded,
                     path # NoPath /\ ~decoded)
    /\ IF path = NoPath \/ ~decoded
       THEN UNCHANGED appvars
       ELSE /\ filepath' = path
            /\ original' = imread(path)
            /\ current' = imread(path)
            /\ set_history(clear(history))
            /\ reset_all_tool_states

\* ---------------- Edit menu ----------------
undo_action ==
    /\ Note("undo_action", has_image /\ can_undo(history))
    /\ IF ~has_image \/ ~can_undo(history)
       THEN UNCHANGED appvars
       ELSE LET r == undo(history, current)
            IN  /\ set_history(r.h)
                /\ current' = IF r.ret # None THEN r.ret ELSE current
                /\ reset_all_tool_states
                /\ UNCHANGED <<original, filepath>>

\* redo_action without its early return
redo_action_unguarded ==
    /\ Note("redo_action", has_image /\ can_redo(history))
    /\ LET r == redo(history, current)
       IN  /\ set_history(r.h)
           /\ current' = IF r.ret # None THEN r.ret ELSE current
           /\ reset_all_tool_states
           /\ UNCHANGED <<original, filepath>>

redo_action ==
    /\ Note("redo_action", has_image /\ can_redo(history))
    /\ IF ~has_image \/ ~can_redo(history)
       THEN UNCHANGED appvars
       ELSE LET r == redo(history, current)
            IN  /\ set_history(r.h)
                /\ current' = IF r.ret # None THEN r.ret ELSE current
                /\ reset_all_tool_states
                /\ UNCHANGED <<original, filepath>>

\* reset_to_original leaving the current image in place
reset_to_original_stale == current

\* ImageModel.reset_to_original: the current image after the call
reset_to_original == IF original # None THEN original ELSE current

\* Edit > Reset: push the image being left, commit a copy of the original,
\* cancel every session
reset_image ==
    /\ Note("reset_image", has_image)
    /\ IF ~has_image
       THEN UNCHANGED appvars
       ELSE /\ set_history(push(history, current))
            /\ current' = reset_to_original
            /\ reset_all_tool_states
            /\ UNCHANGED <<original, filepath>>

\* ---------------- one-shot tools ----------------
\* _apply_and_show(new_img): push the image being left, commit the new one
apply_and_show(new_img) ==
    /\ set_history(push(history, current))
    /\ current' = new_img

\* apply_grayscale without the has_image test
apply_grayscale_unguarded ==
    /\ Note("apply_grayscale", TRUE)
    /\ apply_and_show(to_grayscale(current))
    /\ reset_all_tool_states
    /\ UNCHANGED <<original, filepath>>

apply_grayscale ==
    /\ Note("apply_grayscale", has_image)
    /\ IF ~has_image
       THEN UNCHANGED appvars
       ELSE /\ apply_and_show(to_grayscale(current))
            /\ reset_all_tool_states
            /\ UNCHANGED <<original, filepath>>

\* apply_edges_once without the edge_applied test
apply_edges_unguarded ==
    /\ Note("apply_edges_once", has_image)
    /\ IF ~has_image
       THEN UNCHANGED appvars
       ELSE /\ apply_and_show(edge_detect(current))
            /\ edge_applied' = TRUE
            /\ cancel_other_sessions_for("edge")
            /\ UNCHANGED <<original, filepath>>

apply_edges_once ==
    /\ Note("apply_edges_once", has_image /\ ~edge_applied)
    /\ IF ~has_image \/ edge_applied
       THEN UNCHANGED appvars
       ELSE /\ apply_and_show(edge_detect(current))
            /\ edge_applied' = TRUE
            /\ cancel_other_sessions_for("edge")
            /\ UNCHANGED <<original, filepath>>

\* ---------------- blur (+ / -) ----------------
\* the kernel without the + 1
blur_kernel_even(level) == 2 * level

blur_kernel(level) == 2 * level + 1

\* the image a blur step recomputes from
blur_session_base == IF blur_level = 0 THEN current ELSE blur_base

\* increase_blur pushing history at every step
increase_blur_push_each ==
    /\ Note("increase_blur", has_image)
    /\ IF ~has_image
       THEN UNCHANGED appvars
       ELSE /\ blur_base' = blur_session_base
            /\ set_history(push(history, current))
            /\ blur_level' = blur_level + 1
            /\ current' = GaussianBlur(blur_session_base,
                                       blur_kernel(blur_level + 1))
            /\ cancel_other_sessions_for("blur")
            /\ UNCHANGED <<original, filepath>>

increase_blur ==
    /\ Note("increase_blur", has_image)
    /\ IF ~has_image
       THEN UNCHANGED appvars
       ELSE /\ blur_base' = blur_session_base
            /\ set_history(IF blur_level = 0
                           THEN push(history, current) ELSE history)
            /\ blur_level' = blur_level + 1
            /\ current' = GaussianBlur(blur_session_base,
                                       blur_kernel(blur_level + 1))
            /\ cancel_other_sessions_for("blur")
            /\ UNCHANGED <<original, filepath>>

\* decrease_blur without the test of level 0
decrease_blur_below_zero ==
    /\ Note("decrease_blur", has_image)
    /\ IF ~has_image
       THEN UNCHANGED appvars
       ELSE IF blur_level - 1 = 0
       THEN /\ blur_level' = 0
            /\ current' = blur_base
            /\ blur_base' = None
            /\ UNCHANGED <<original, filepath, undo_stack, redo_stack,
                           brightness_level, contrast_level, bc_base,
                           scale_level, scale_base, edge_applied>>
       ELSE /\ blur_level' = blur_level - 1
            /\ current' = GaussianBlur(blur_base, blur_kernel(blur_level - 1))
            /\ cancel_other_sessions_for("blur")
            /\ UNCHANGED <<original, filepath, undo_stack, redo_stack,
                           blur_base>>

\* decrease_blur clearing the base before it commits it
decrease_blur_clear_first ==
    /\ Note("decrease_blur", has_image /\ blur_level # 0)
    /\ IF ~has_image \/ blur_level = 0
       THEN UNCHANGED appvars
       ELSE IF blur_level - 1 = 0
       THEN /\ blur_level' = 0
            /\ blur_base' = None
            /\ current' = None
            /\ UNCHANGED <<original, filepath, undo_stack, redo_stack,
                           brightness_level, contrast_level, bc_base,
                           scale_level, scale_base, edge_applied>>
       ELSE /\ blur_level' = blur_level - 1
            /\ current' = GaussianBlur(blur_base, blur_kernel(blur_level - 1))
            /\ cancel_other_sessions_for("blur")
            /\ UNCHANGED <<original, filepath, undo_stack, redo_stack,
                           blur_base>>

\* decrease_blur ending the session without committing the base
decrease_blur_residual ==
    /\ Note("decrease_blur", has_image /\ blur_level # 0)
    /\ IF ~has_image \/ blur_level = 0
       THEN UNCHANGED appvars
       ELSE IF blur_level - 1 = 0
       THEN /\ blur_level' = 0
            /\ current' = current
            /\ blur_base' = None
            /\ UNCHANGED <<original, filepath, undo_stack, redo_stack,
                           brightness_level, contrast_level, bc_base,
                           scale_level, scale_base, edge_applied>>
       ELSE /\ blur_level' = blur_level - 1
            /\ current' = GaussianBlur(blur_base, blur_kernel(blur_level - 1))
            /\ cancel_other_sessions_for("blur")
            /\ UNCHANGED <<original, filepath, undo_stack, redo_stack,
                           blur_base>>

decrease_blur ==
    /\ Note("decrease_blur", has_image /\ blur_level # 0)
    /\ IF ~has_image \/ blur_level = 0
       THEN UNCHANGED appvars
       ELSE IF blur_level - 1 = 0
       THEN /\ blur_level' = 0
            /\ current' = blur_base
            /\ blur_base' = None
            /\ UNCHANGED <<original, filepath, undo_stack, redo_stack,
                           brightness_level, contrast_level, bc_base,
                           scale_level, scale_base, edge_applied>>
       ELSE /\ blur_level' = blur_level - 1
            /\ current' = GaussianBlur(blur_base, blur_kernel(blur_level - 1))
            /\ cancel_other_sessions_for("blur")
            /\ UNCHANGED <<original, filepath, undo_stack, redo_stack,
                           blur_base>>

\* ---------------- brightness / contrast (+ / -) ----------------
\* _ensure_bc_session: the base after the call ...
bc_session_base == IF bc_base = None THEN current ELSE bc_base

\* _ensure_bc_session without the call of _cancel_other_sessions_for
ensure_bc_session_no_cancel ==
    /\ set_history(IF bc_base = None
                   THEN push(history, current) ELSE history)
    /\ UNCHANGED <<blur_level, blur_base, scale_level, scale_base,
                   edge_applied>>

\* ... and its effect on the history and on the other tools
ensure_bc_session ==
    /\ set_history(IF bc_base = None
                   THEN push(history, current) ELSE history)
    /\ cancel_other_sessions_for("bc")

bc_brightness(b_level) == b_level * 12

\* the contrast factor in hundredths: max(0.2, min(4.0, 1.0 + level * 0.08))
bc_contrast(c_level) ==
    LET c == 100 + c_level * 8
        m == IF c < 400 THEN c ELSE 400
    IN  IF m > 20 THEN m ELSE 20

\* _apply_brightness_contrast: the image committed as current
apply_brightness_contrast(base, b_level, c_level) ==
    IF base = None THEN current
    ELSE brightness_contrast(base, bc_brightness(b_level),
                             bc_contrast(c_level))

\* the four button handlers: one step of brightness (db) or contrast (dc)
bc_step(name, db, dc) ==
    /\ Note(name, has_image)
    /\ IF ~has_image
       THEN UNCHANGED appvars
       ELSE /\ ensure_bc_session
            /\ brightness_level' = brightness_level + db
            /\ contrast_level' = contrast_level + dc
            /\ IF brightness_level + db = 0 /\ contrast_level + dc = 0
               THEN /\ current' = bc_session_base
                    /\ bc_base' = None
               ELSE /\ current' = apply_brightness_contrast(
                                      bc_session_base,
                                      brightness_level + db,
                                      contrast_level + dc)
                    /\ bc_base' = bc_session_base
            /\ UNCHANGED <<original, filepath>>

increase_brightness == bc_step("increase_brightness", 1, 0)

decrease_brightness == bc_step("decrease_brightness", -1, 0)

increase_contrast == bc_step("increase_contrast", 0, 1)

decrease_contrast == bc_step("decrease_contrast", 0, -1)

\* ---------------- scale (+ / -) ----------------
scale_session_base == IF scale_level = 0 THEN current ELSE scale_base

increase_scale ==
    /\ Note("increase_scale", has_image)
    /\ IF ~has_image
       THEN UNCHANGED appvars
       ELSE /\ scale_base' = scale_session_base
            /\ set_history(IF scale_level = 0
                           THEN push(history, current) ELSE history)
            /\ scale_level' = scale_level + 1
            /\ current' = resize(scale_session_base, scale_level + 1)
            /\ cancel_other_sessions_for("scale")
            /\ UNCHANGED <<original, filepath>>

decrease_scale ==
    /\ Note("decrease_scale", has_image /\ scale_level # 0)
    /\ IF ~has_image \/ scale_level = 0
       THEN UNCHANGED appvars
       ELSE IF scale_level - 1 = 0
       THEN /\ scale_level' = 0
            /\ current' = scale_base
            /\ scale_base' = None
            /\ UNCHANGED <<original, filepath, undo_stack, redo_stack,
                           blur_level, blur_base, brightness_level,
                           contrast_level, bc_base, edge_applied>>
       ELSE /\ scale_level' = scale_level - 1
            /\ current' = resize(scale_base, scale_level - 1)
            /\ cancel_other_sessions_for("scale")
            /\ UNCHANGED <<original, filepath, undo_stack, redo_stack,
                           scale_base>>

\* ---------------- the user's actions ----------------
\* Exploration limits only.  A call that pushes history (a one-shot filter
\* or the first step of a live session) is explored where room holds; steps
\* inside a session are limited by the level bounds alone.
Abs(n) == IF n < 0 THEN -n ELSE n

BcInRange(db, dc) ==
    Abs(brightness_level + db) + Abs(contrast_level + dc) <= MaxBC

Open == \E path \in 0..NumPaths, decoded \in BOOLEAN : open_image(path, decoded)

Grayscale(room) == room /\ apply_grayscale

Reset(room) == room /\ reset_image

Edges(room) == (edge_applied \/ room) /\ apply_edges_once

BlurUp(room) ==
    /\ blur_level < MaxBlur
    /\ blur_level > 0 \/ room
    /\ increase_blur

BcStep(room) ==
    /\ bc_base # None \/ room
    /\ \/ BcInRange(1, 0) /\ increase_brightness
       \/ BcInRange(-1, 0) /\ decrease_brightness
       \/ BcInRange(0, 1) /\ increase_contrast
       \/ BcInRange(0, -1) /\ decrease_contrast

ScaleUp(room) ==
    /\ scale_level < MaxScale
    /\ scale_level > 0 \/ room
    /\ increase_scale

\* Spec: every tool on every image made from one file, undo stacks of at most
\* MaxHist entries; only calls that get past their early returns (the others,
\* and the other files, are explored by SpecCap)
ShortHistory == Len(undo_stack) < MaxHist

Next ==
    \/ open_image(1, TRUE)
    \/ can_undo(history) /\ undo_action
    \/ can_redo(history) /\ redo_action
    \/ has_image /\ Grayscale(ShortHistory)
    \/ has_image /\ ~edge_applied /\ Edges(ShortHistory)
    \/ has_image /\ BlurUp(ShortHistory)
    \/ blur_level > 0 /\ decrease_blur
    \/ has_image /\ BcStep(ShortHistory)
    \/ has_image /\ ScaleUp(ShortHistory)
    \/ scale_level > 0 /\ decrease_scale
    \/ has_image /\ Reset(ShortHistory)

Spec == Init /\ [][Next]_vars

\* SpecCap: every call, early returns included, with the tools applied to the
\* image as loaded (or to no image), histories of any length
Unedited == current = original

NextCap ==
    \/ Open
    \/ undo_action
    \/ redo_action
    \/ Grayscale(Unedited)
    \/ Edges(Unedited)
    \/ BlurUp(Unedited)
    \/ decrease_blur
    \/ BcStep(Unedited)
    \/ ScaleUp(Unedited)
    \/ decrease_scale
    \/ Reset(Unedited)

SpecCap == Init /\ [][NextCap]_vars

\* SpecChain: chains of one-shot edits long enough to overflow the undo
\* stack: grayscale on any image with fewer than MaxChain filters, edge
\* detection on the image as loaded
NextChain ==
    \/ Open
    \/ undo_action
    \/ redo_action
    \/ Grayscale(Depth(current) < MaxChain)
    \/ Edges(Unedited)

SpecChain == Init /\ [][NextChain]_vars

\* SpecFiles: the one-shot tools, blur and reset on every image made from
\* every file the dialog can return, undo stacks of at most MaxHist entries
NextFiles ==
    \/ \E path \in 1..NumPaths : open_image(path, TRUE)
    \/ can_undo(history) /\ undo_action
    \/ can_redo(history) /\ redo_action
    \/ has_image /\ Grayscale(ShortHistory)
    \/ has_image /\ ~edge_applied /\ Edges(ShortHistory)
    \/ has_image /\ BlurUp(ShortHistory)
    \/ blur_level > 0 /\ decrease_blur
    \/ has_image /\ Reset(ShortHistory)

SpecFiles == Init /\ [][NextFiles]_vars

\* SpecEdge: every call, early returns included, with edge detection applied
\* to every image and the other tools to the image as loaded (or to no image)
\* and to the output of an edge detection whose guard is still set, undo
\* stacks of at most MaxHist entries
GuardedOrUnedited == (edge_applied \/ Unedited) /\ ShortHistory

NextEdge ==
    \/ Open
    \/ undo_action
    \/ redo_action
    \/ Grayscale(GuardedOrUnedited)
    \/ Edges(ShortHistory)
    \/ BlurUp(GuardedOrUnedited)
    \/ decrease_blur
    \/ BcStep(GuardedOrUnedited)
    \/ ScaleUp(GuardedOrUnedited)
    \/ decrease_scale
    \/ Reset(GuardedOrUnedited)

SpecEdge == Init /\ [][NextEdge]_vars

\* ---------------- properties ----------------
OneShotOps == {"apply_grayscale", "apply_edges_once", "reset_image"}

BcOps == {"increase_brightness", "decrease_brightness",
          "increase_contrast", "decrease_contrast"}

\* the call made in this step was op and got past its early returns
Did(op) == last'.op = op /\ last'.acted

\* the step is a call that reaches HistoryManager.push
PushStep ==
    /\ last'.acted
    /\ \/ last'.op \in OneShotOps
       \/ last'.op = "increase_blur" /\ blur_level = 0
       \/ last'.op = "increase_scale" /\ scale_level = 0
       \/ last'.op \in BcOps /\ bc_base = None

\* a stack of at most max_states entries after one more entry
WithPushed(stack, img) ==
    (IF Len(stack) < max_states THEN stack ELSE Tail(stack)) \o <<img>>

\* C1: in every reachable state the undo stack holds at most 15 (max_states)
\* entries.
C1_UndoStackBounded == Len(undo_stack) <= max_states

\* a blur session was started on a full undo stack, which is still full
C1_Witness ==
    /\ last.op = "increase_blur" /\ last.acted /\ last.live = "none"
    /\ last.undo_len = max_states
    /\ Len(undo_stack) = max_states

\* C2: a push on an undo stack of 15 entries removes the oldest (bottom)
\* entry, keeps the other 14 in order and puts the pushed image on top, so
\* the stack still holds 15.
C2_PushEvictsOldest ==
    [][(PushStep /\ Len(undo_stack) = max_states)
         => undo_stack' = Append(Tail(undo_stack), current)]_vars

\* a grayscale edit pushed onto a full stack of distinct images
C2_Witness ==
    /\ last.op = "apply_grayscale" /\ last.acted
    /\ last.undo_len = max_states
    /\ Len(undo_stack) = max_states
    /\ Top(undo_stack) = last.current
    /\ \A i, j \in 1..Len(undo_stack) : i # j => undo_stack[i] # undo_stack[j]

\* C3: an undo right after a one-shot edit that pushed image A and committed
\* image B makes current equal A, and a redo right after that undo makes
\* current equal B (last.current is the image the previous call found).
C3_UndoRedoRoundTrip ==
    [][/\ (last.acted /\ last.op \in OneShotOps /\ last'.op = "undo_action")
            => (last'.acted /\ current' = last.current)
       /\ (last.acted /\ last.op = "undo_action" /\ last'.op = "redo_action")
            => (last'.acted /\ current' = last.current)]_vars

\* a redo has put back the output of a one-shot edit made on an image that
\* was itself the output of an edit
C3_Witness ==
    /\ last.op = "redo_action" /\ last.acted
    /\ Depth(current) >= 2
    /\ last.current = Pop(current)
    /\ current \in {to_grayscale(last.current), edge_detect(last.current)}
    /\ Top(undo_stack) = last.current

\* C4: from a state where redo is available, every call other than undo and
\* redo that changes the current image leaves the redo stack empty.
C4_EditClearsRedo ==
    [][(can_redo(history) /\ current' # current
          /\ last'.op \notin {"undo_action", "redo_action"})
         => redo_stack' = <<>>]_vars

\* a blur session was started while redo was available
C4_Witness ==
    /\ last.op = "increase_blur" /\ last.acted /\ last.can_redo
    /\ current # last.current
    /\ redo_stack = <<>>

\* a blur session's base is the image found by its first increase_blur and
\* stays the same for as long as the level stays above 0
BlurBaseIsSessionStart ==
    /\ (Did("increase_blur") /\ blur_level = 0) => blur_base' = current
    /\ (blur_level > 0 /\ blur_level' > 0) => blur_base' = blur_base

\* every acting blur call moves the level by exactly one
BlurStepsByOne ==
    /\ Did("increase_blur") => blur_level' = blur_level + 1
    /\ Did("decrease_blur") => blur_level' = blur_level - 1

\* C5: n increase_blur calls from rest followed by n decrease_blur calls end
\* at level 0 with the base cleared and the current image equal to the image
\* found by the first increase: each call moves the level by one, the base is
\* that image throughout, and the decrease from level 1 commits the base.
C5_BlurBackToBase ==
    [][/\ BlurStepsByOne
       /\ BlurBaseIsSessionStart
       /\ (Did("decrease_blur") /\ blur_level = 1)
            => (current' = blur_base /\ blur_level' = 0 /\ blur_base' = None)
      ]_vars

\* a decrease_blur has ended a session: the blurred image it found has given
\* way to the image pushed when the session started
C5_Witness ==
    /\ last.op = "decrease_blur" /\ last.acted
    /\ blur_level = 0 /\ blur_base = None
    /\ last.current = GaussianBlur(current, 3)
    /\ current = Top(undo_stack)

\* C6: while the blur level L is above 0 the current image is the base
\* blurred with kernel 2 * L + 1, the base being the image found by the
\* session's first increase_blur, whatever the steps taken to reach L.
C6_BlurFromBase ==
    /\ [](blur_level > 0
            => current = GaussianBlur(blur_base, 2 * blur_level + 1))
    /\ [][BlurBaseIsSessionStart]_vars

\* level 2 reached by coming down from level 3
C6_Witness ==
    /\ last.op = "decrease_blur" /\ last.acted
    /\ blur_level = 2
    /\ last.current = GaussianBlur(blur_base, 7)
    /\ current = GaussianBlur(blur_base, 5)

\* C7: a blur session pushes once, at its first step and the image that step
\* found; later steps of the session leave both stacks unchanged (also the
\* step back to level 0), and an undo during the session restores the image
\* the session started from.
C7_BlurSessionOnePush ==
    /\ [](blur_level > 0 => (can_undo(history) /\ Top(undo_stack) = blur_base))
    /\ [][/\ BlurBaseIsSessionStart
          /\ (Did("increase_blur") /\ blur_level = 0)
               => /\ undo_stack' = WithPushed(undo_stack, current)
                  /\ redo_stack' = <<>>
          /\ (blur_level > 0 /\ last'.op \in {"increase_blur", "decrease_blur"})
               => UNCHANGED <<undo_stack, redo_stack>>
          /\ (blur_level > 0 /\ last'.op = "undo_action")
               => (last'.acted /\ current' = blur_base)
         ]_vars

\* an undo at blur level 3 has restored the image the session started from
C7_Witness ==
    /\ last.op = "undo_action" /\ last.acted /\ last.live = "blur"
    /\ last.current = GaussianBlur(current, 7)
    /\ blur_level = 0 /\ blur_base = None

\* C8: a brightness/contrast step made while a blur session is active resets
\* the blur level to 0, clears the blur base and pushes exactly one history
\* entry, the (blurred) image that was current.
C8_BcStartCancelsBlur ==
    [][(\E op \in BcOps : Did(op)) /\ blur_level > 0
         => /\ blur_level' = 0
            /\ blur_base' = None
            /\ undo_stack' = WithPushed(undo_stack, current)
            /\ bc_base' = current
      ]_vars

\* a brightness/contrast session was started on a blurred image in the middle
\* of a blur session
C8_Witness ==
    /\ last.op \in BcOps /\ last.acted /\ last.live = "blur"
    /\ blur_level = 0 /\ blur_base = None
    /\ bc_base = last.current
    /\ Len(undo_stack) = last.undo_len + 1
    /\ Top(undo_stack) = last.current
    /\ Top(last.current).op = "GaussianBlur"

AtRestBlur == blur_level = 0 /\ blur_base = None

AtRestBc == brightness_level = 0 /\ contrast_level = 0 /\ bc_base = None

AtRestScale == scale_level = 0 /\ scale_base = None

\* C9: at most one of blur_base, bc_base and scale_base is set, and the call
\* that starts a session of one kind leaves the sessions of the other kinds
\* at rest (levels 0, base cleared).
C9_OneLiveSession ==
    /\ [](/\ ~(blur_base # None /\ bc_base # None)
          /\ ~(blur_base # None /\ scale_base # None)
          /\ ~(bc_base # None /\ scale_base # None))
    /\ [][/\ (Did("increase_blur") /\ blur_base = None)
               => (AtRestBc /\ AtRestScale)'
          /\ ((\E op \in BcOps : Did(op)) /\ bc_base = None)
               => (AtRestBlur /\ AtRestScale)'
          /\ (Did("increase_scale") /\ scale_base = None)
               => (AtRestBlur /\ AtRestBc)'
         ]_vars

\* a blur session was started in the middle of a brightness/contrast session
C9_Witness ==
    /\ last.op = "increase_blur" /\ last.acted /\ last.live = "bc"
    /\ blur_level = 1 /\ blur_base = last.current
    /\ AtRestBc /\ AtRestScale

\* C10: apply_edges_once called right after apply_edges_once on a loaded
\* image changes nothing (current, both stacks and all tool state); a call
\* that does act pushes exactly once and commits the edge image.
C10_EdgesOnce ==
    [][/\ (has_image /\ last.op = "apply_edges_once"
             /\ last'.op = "apply_edges_once")
            => (~last'.acted /\ UNCHANGED appvars)
       /\ Did("apply_edges_once")
            => /\ current' = edge_detect(current)
               /\ undo_stack' = WithPushed(undo_stack, current)
               /\ edge_applied'
      ]_vars

\* a second call returned early on the edge image committed by the first
C10_Witness ==
    /\ last.op = "apply_edges_once" /\ ~last.acted
    /\ has_image /\ edge_applied
    /\ current = edge_detect(Top(undo_stack))

\* the file a pixel buffer was decoded from
FileOf(img) == img[1].a

\* C11: after a successful load, whatever the state it was made in, both
\* stacks are empty, every level is 0, every base is cleared, the edge guard
\* is false, and current and original are both the decoded image.
C11_LoadClearsAll ==
    (last.op = "open_image" /\ last.acted)
        => /\ undo_stack = <<>> /\ redo_stack = <<>>
           /\ AtRestBlur /\ AtRestBc /\ AtRestScale
           /\ ~edge_applied
           /\ filepath # NoPath
           /\ current = imread(filepath)
           /\ original = imread(filepath)

\* another file was loaded in the middle of a blur session that had history
\* behind it
C11_Witness ==
    /\ last.op = "open_image" /\ last.acted
    /\ last.live = "blur" /\ last.undo_len >= 2
    /\ FileOf(last.current) # filepath
    /\ current = imread(filepath) /\ original = current
    /\ undo_stack = <<>> /\ AtRestBlur

\* C12: a load that fails (cv2.imread gives no image and ImageModel.load
\* raises) leaves original, current, filepath, both stacks, every level and
\* base and the edge guard as they were, also during a live session.
C12_FailedLoadNoChange ==
    [][(last'.op = "open_image" /\ last'.raised) => UNCHANGED appvars]_vars

\* a load failed at blur level 2 of a session with history and an open file
C12_Witness ==
    /\ last.op = "open_image" /\ last.raised /\ ~last.acted
    /\ last.live = "blur" /\ blur_level = 2
    /\ blur_base = original /\ filepath = FileOf(original)
    /\ current = last.current /\ current = GaussianBlur(blur_base, 5)
    /\ Len(undo_stack) = last.undo_len /\ last.undo_len >= 2

NoImageOps == {"undo_action", "redo_action", "apply_grayscale",
               "apply_edges_once", "increase_blur", "decrease_blur"}

\* C13: with no image loaded, undo, redo, grayscale, edge detection,
\* increase_blur and decrease_blur return early and leave current, original,
\* filepath, both stacks, every level and base and the edge guard unchanged.
C13_NoImageNoOp ==
    [][(~has_image /\ last'.op \in NoImageOps)
         => (~last'.acted /\ UNCHANGED appvars)]_vars

\* increase_blur was called before any image was loaded
C13_Witness ==
    /\ last.op = "increase_blur" /\ ~last.acted
    /\ ~has_image /\ original = None /\ filepath = NoPath
    /\ last.current = None
    /\ undo_stack = <<>> /\ redo_stack = <<>>
    /\ AtRestBlur /\ AtRestBc /\ AtRestScale /\ ~edge_applied

C15_CurrentStaysPresent == original # None => has_image

\* decrease_blur has ended a blur session started on a grayscale image and
\* committed the session's base
C15_Witness ==
    /\ last.op = "decrease_blur" /\ last.acted
    /\ blur_level = 0 /\ blur_base = None
    /\ has_image
    /\ current = to_grayscale(original)
    /\ last.current = GaussianBlur(current, 3)

AtRest == AtRestBlur /\ AtRestBc /\ AtRestScale /\ ~edge_applied

\* C16: an undo that acts pops the top of the undo stack into current and
\* appends the image it replaced to the redo stack; a redo that acts does the
\* reverse; neither pushes (no eviction, redo stack not emptied) and both
\* leave every level at 0, every base cleared and the edge guard false.
C16_UndoRedoEndSessions ==
    [][/\ Did("undo_action")
            => /\ current' = Top(undo_stack)
               /\ undo_stack' = Pop(undo_stack)
               /\ redo_stack' = Append(redo_stack, current)
               /\ AtRest'
       /\ Did("redo_action")
            => /\ current' = Top(redo_stack)
               /\ redo_stack' = Pop(redo_stack)
               /\ undo_stack' = Append(undo_stack, current)
               /\ AtRest'
      ]_vars

\* an undo in the middle of a brightness/contrast session started on an
\* edited image: the adjusted image is on the redo stack, the session is over
C16_Witness ==
    /\ last.op = "undo_action" /\ last.acted /\ last.live = "bc"
    /\ last.undo_len = 2 /\ Len(undo_stack) = 1
    /\ redo_stack = <<last.current>>
    /\ Top(last.current).op = "brightness_contrast"
    /\ current = Pop(last.current)
    /\ AtRest

\* C17: HistoryManager.undo on an empty undo stack and HistoryManager.redo on
\* an empty redo stack return None and leave both stacks as they are; the
\* handlers called in those states return early and change nothing: stacks,
\* current image, and the level and base of a live session.
C17_NothingToDo ==
    /\ [](~can_undo(history)
            => undo(history, current) = [h |-> history, ret |-> None])
    /\ [](~can_redo(history)
            => redo(history, current) = [h |-> history, ret |-> None])
    /\ [][/\ (last'.op = "undo_action" /\ ~can_undo(history))
               => (~last'.acted /\ UNCHANGED appvars)
          /\ (last'.op = "redo_action" /\ ~can_redo(history))
               => (~last'.acted /\ UNCHANGED appvars)
         ]_vars

\* redo was called at blur level 2, where there is nothing to redo: the
\* session goes on
C17_Witness ==
    /\ last.op = "redo_action" /\ ~last.acted /\ ~last.can_redo
    /\ last.live = "blur"
    /\ has_image /\ redo_stack = <<>>
    /\ blur_level = 2 /\ blur_base # None
    /\ current = last.current /\ current = GaussianBlur(blur_base, 5)
    /\ Len(undo_stack) = last.undo_len

\* C18: the blur level is never negative and is 0 exactly when the blur base
\* is absent; a base is captured only by the increase_blur that takes the
\* level from 0 to 1 (it is the image that call found) and stays as it is
\* while the level stays above 0; decrease_blur at level 0 changes nothing.
C18_BlurLevelAndBase ==
    /\ [](blur_level >= 0 /\ (blur_level = 0 <=> blur_base = None))
    /\ [][/\ (blur_base' # None /\ blur_base' # blur_base)
               => /\ Did("increase_blur")
                  /\ blur_level = 0 /\ blur_level' = 1
                  /\ blur_base' = current
          /\ (blur_level > 0 /\ blur_level' > 0) => blur_base' = blur_base
          /\ (last'.op = "decrease_blur" /\ blur_level = 0)
               => (~last'.acted /\ UNCHANGED appvars)
         ]_vars

\* decrease_blur was called with no blur session, in the middle of a
\* brightness/contrast session, which goes on
C18_Witness ==
    /\ last.op = "decrease_blur" /\ ~last.acted /\ last.live = "bc"
    /\ has_image /\ AtRestBlur
    /\ bc_base # None
    /\ Abs(brightness_level) + Abs(contrast_level) = 1
    /\ current = last.current /\ current # bc_base
    /\ Len(undo_stack) = last.undo_len

\* C19: the undo stack and the redo stack together never hold more than 15
\* (max_states) entries, so neither the redo stack nor an undo stack grown by
\* redo exceeds 15.
C19_HistoryBounded == Len(undo_stack) + Len(redo_stack) <= max_states

\* the last of 15 redos in a row has brought the undo stack from 14 entries
\* to 15 and emptied the redo stack
C19_Witness ==
    /\ last.op = "redo_action" /\ last.acted /\ last.can_redo
    /\ last.undo_len = max_states - 1
    /\ Len(undo_stack) = max_states
    /\ redo_stack = <<>>
    /\ Depth(current) >= max_states

\* C20: whenever the redo stack is non-empty every tool is at rest: blur,
\* brightness, contrast and scale levels are 0, every base is absent and the
\* edge guard is false.
C20_RedoMeansAtRest == can_redo(history) => AtRest

\* an undo has taken back an edge detection: its output is on the redo
\* stack and the edge guard is off again
C20_Witness ==
    /\ last.op = "undo_action" /\ last.acted
    /\ can_redo(history)
    /\ Top(redo_stack) = edge_detect(current)
    /\ Top(redo_stack) = last.current
    /\ AtRest

\* C21: while the edge guard is set the current image is the output of the
\* edge detection that set it (edge_detect of the image that call pushed, the
\* top of the undo stack) and no live session is active; only an acting
\* apply_edges_once sets the guard, and every step that changes the current
\* image while the guard is set clears it.
C21_EdgeGuardMeansEdgeImage ==
    /\ [](edge_applied
            => /\ has_image /\ can_undo(history)
               /\ current = edge_detect(Top(undo_stack))
               /\ AtRestBlur /\ AtRestBc /\ AtRestScale)
    /\ [][/\ (edge_applied /\ current' # current) => ~edge_applied'
          /\ (~edge_applied /\ edge_applied') => Did("apply_edges_once")
         ]_vars

\* an edge detection on a grayscale image, then a load that failed: the
\* guard is still set and the current image is still the edge image
C21_Witness ==
    /\ last.op = "open_image" /\ last.raised
    /\ edge_applied
    /\ current = edge_detect(to_grayscale(original))
    /\ Top(undo_stack) = to_grayscale(original)
    /\ current = last.current
    /\ AtRestBlur /\ AtRestBc /\ AtRestScale

====
